---- MODULE Spec2Model ----
(***************************************************************************)
(* PlayChess backend: the in-memory game store (game_manager.py), the      *)
(* request handlers that sequence a human move and the engine reply        *)
(* (main.py) and the Stockfish wrapper (stockfish_engine.py).              *)
(*                                                                         *)
(* The rules library (python-chess) is an external capability.  It is      *)
(* modelled by a finite graph of placements with the library's own         *)
(* bookkeeping on top of it: side to move, halfmove clock, fullmove        *)
(* number, the move stack, the FEN text that keeps everything but the      *)
(* stack, and the draw predicates computed from them as the library        *)
(* computes them.                                                          *)
(***************************************************************************)
EXTENDS Integers, Sequences, FiniteSets, TLC

VARIABLES
    games,        \* GameManager.games: game_id -> GameState
    used,         \* every game_id uuid4 has handed out so far
    stockfish,    \* main.stockfish: TRUE when the engine object exists, FALSE for None
    engineCalls,  \* number of get_best_move calls the handlers have made
    applied,      \* game_id -> number of apply_move calls that returned True
    call,         \* the last operation called, with its arguments
    resp,         \* what that operation returned
    options,      \* the options set on the one Stockfish process
    reqs,         \* calls of StockfishEngine methods in flight: id -> progress
    applyCalls,   \* calls of GameManager.apply_move in flight: id -> progress
    running,      \* the call the event loop is executing, if any
    elo_rating,   \* the argument of _elo_to_skill
    skill_level,  \* what _elo_to_skill returned for it: <<>> before the call
    move_time,    \* the move_time argument of get_best_move, in milliseconds
    adjusted_time,  \* the time limit computed from it: <<>> before the call
    wrapper,      \* the StockfishEngine object: absent, constructed or deleted
    engine,       \* its field engine: None, or the process running or terminated
    quits         \* number of engine.quit() calls made on the process

\* the store and what the handlers answer
storeVars == <<games, used, stockfish, engineCalls, applied, call, resp>>

\* single calls of the engine wrapper and of the store, step by step
unitVars == <<options, reqs, applyCalls, running, elo_rating, skill_level,
              move_time, adjusted_time, wrapper, engine, quits>>

\* the time limit of one get_best_move call
timeVars == <<move_time, adjusted_time>>

\* the life of the StockfishEngine object
lifeVars == <<wrapper, engine, quits>>

vars == <<games, used, stockfish, engineCalls, applied, call, resp,
          options, reqs, applyCalls, running, elo_rating, skill_level,
          move_time, adjusted_time, wrapper, engine, quits>>

\* ------------------------------------------------------------------ bounds

\* number of moves in the longest history of the store
MaxMoves == 8

\* number of moves in all the other histories of the store together
MaxOtherMoves == 1

\* number of apply_move calls in flight on one game
MaxCalls == 2

\* how far below 1320 and above 3000 the ratings passed to the wrapper go
RatingMargin == 30

\* the halfmove-clock value at which the fifty-move rule applies (the
\* library's 100, scaled to the size of the placement graph)
HalfmoveLimit == 9

\* ------------------------------------------------------------------ values

None == "None"

MIN_ELO == 1320

MAX_ELO == 3000

\* get_best_move's default move_time of 0.2 s, in milliseconds
DefaultMoveTime == 200

\* the ids uuid4 hands out
GameIds == {"g1", "g2"}

Other(color) == IF color = "white" THEN "black" ELSE "white"

Max(a, b) == IF a >= b THEN a ELSE b

Min(a, b) == IF a <= b THEN a ELSE b

\* ------------------------------------------------------- chess.Move codec

\* chess.Move.from_uci slices the text into two square names; the table is
\* that slicing on the move texts of the model.  Texts outside it do not
\* parse (ValueError).
UciTable ==
    [s \in {"e2e4", "f2f3", "g1f3", "f3g1", "g8f6", "f6g8",
            "d1f7", "d1d8", "d8d1", "d8h4", "e1e2"} |->
        CASE s = "e2e4" -> [from_square |-> "e2", to_square |-> "e4"]
          [] s = "f2f3" -> [from_square |-> "f2", to_square |-> "f3"]
          [] s = "g1f3" -> [from_square |-> "g1", to_square |-> "f3"]
          [] s = "f3g1" -> [from_square |-> "f3", to_square |-> "g1"]
          [] s = "g8f6" -> [from_square |-> "g8", to_square |-> "f6"]
          [] s = "f6g8" -> [from_square |-> "f6", to_square |-> "g8"]
          [] s = "d1f7" -> [from_square |-> "d1", to_square |-> "f7"]
          [] s = "d1d8" -> [from_square |-> "d1", to_square |-> "d8"]
          [] s = "d8d1" -> [from_square |-> "d8", to_square |-> "d1"]
          [] s = "d8h4" -> [from_square |-> "d8", to_square |-> "h4"]
          [] s = "e1e2" -> [from_square |-> "e1", to_square |-> "e2"]]

ValueError == [error |-> "ValueError"]

from_uci(move_uci) ==
    IF move_uci \in DOMAIN UciTable THEN UciTable[move_uci] ELSE ValueError

uci(move) == move.from_square \o move.to_square

\* ------------------------------------------------------------ chess.Board

\* A placement: the material and pawn structure reached ("stage") and
\* whether each side's king knight stands on its developed square.
InitialPlacement == [stage |-> "start", wn |-> FALSE, bn |-> FALSE]

\* placements in which the side to move has no legal move
DeadStages == {"mate", "stale", "stale_bare"}

\* Every move the rules allow from a placement for the side to move: the
\* move, the placement it leads to, and whether it is a capture or a pawn
\* move (which zeroes the halfmove clock).
MoveTable(p, turn) ==
    IF p.stage \in DeadStages THEN {}
    ELSE
      (IF turn = "white"
       THEN {IF p.wn
             THEN [move |-> from_uci("f3g1"), to |-> [p EXCEPT !.wn = FALSE], zeroing |-> FALSE]
             ELSE [move |-> from_uci("g1f3"), to |-> [p EXCEPT !.wn = TRUE], zeroing |-> FALSE]}
       ELSE {IF p.bn
             THEN [move |-> from_uci("f6g8"), to |-> [p EXCEPT !.bn = FALSE], zeroing |-> FALSE]
             ELSE [move |-> from_uci("g8f6"), to |-> [p EXCEPT !.bn = TRUE], zeroing |-> FALSE]})
      \cup
      (CASE p.stage = "start" /\ turn = "white" ->
              {[move |-> from_uci("e2e4"), to |-> [p EXCEPT !.stage = "open"], zeroing |-> TRUE],
               [move |-> from_uci("f2f3"), to |-> [p EXCEPT !.stage = "weak"], zeroing |-> TRUE]}
         [] p.stage = "weak" /\ turn = "black" ->
              {[move |-> from_uci("d8h4"), to |-> [p EXCEPT !.stage = "mate"], zeroing |-> FALSE]}
         [] p.stage = "open" /\ turn = "white" ->
              {[move |-> from_uci("d1f7"), to |-> [p EXCEPT !.stage = "mate"], zeroing |-> TRUE],
               [move |-> from_uci("d1d8"), to |-> [p EXCEPT !.stage = "bare"], zeroing |-> TRUE]}
         [] p.stage = "open" /\ turn = "black" ->
              {[move |-> from_uci("d8d1"), to |-> [p EXCEPT !.stage = "stale"], zeroing |-> TRUE]}
         [] p.stage = "bare" /\ turn = "white" ->
              {[move |-> from_uci("e1e2"), to |-> [p EXCEPT !.stage = "stale_bare"], zeroing |-> FALSE]}
         [] OTHER -> {})

\* chess.Board(): the starting position, nothing on the move stack
InitialBoard ==
    [placement |-> InitialPlacement, turn |-> "white", halfmove_clock |-> 0,
     fullmove_number |-> 1, move_stack |-> <<>>]

\* board.fen(): the position text; the move stack is not part of it
fen(board) ==
    [placement |-> board.placement, turn |-> board.turn,
     halfmove_clock |-> board.halfmove_clock,
     fullmove_number |-> board.fullmove_number]

\* chess.Board(fen): a board set up from the text, with an empty move stack
BoardFromFen(f) ==
    [placement |-> f.placement, turn |-> f.turn, halfmove_clock |-> f.halfmove_clock,
     fullmove_number |-> f.fullmove_number, move_stack |-> <<>>]

Entries(board) == MoveTable(board.placement, board.turn)

\* board.legal_moves
legal_moves(board) == {e.move : e \in Entries(board)}

EntryOf(board, move) == CHOOSE e \in Entries(board) : e.move = move

is_zeroing(board, move) ==
    /\ move \in legal_moves(board)
    /\ EntryOf(board, move).zeroing

\* board.is_irreversible(move): of the moves of the placement graph, the
\* captures and pawn moves
is_irreversible(board, move) == is_zeroing(board, move)

\* board.push(move): the stack keeps the move and the position it was
\* played from
push(board, move) ==
    LET legal == move \in legal_moves(board)
    IN [placement       |-> IF legal THEN EntryOf(board, move).to ELSE board.placement,
        turn            |-> Other(board.turn),
        halfmove_clock  |-> IF is_zeroing(board, move) THEN 0 ELSE board.halfmove_clock + 1,
        fullmove_number |-> IF board.turn = "black" THEN board.fullmove_number + 1
                            ELSE board.fullmove_number,
        move_stack      |-> Append(board.move_stack, [move |-> move, from |-> fen(board)])]

is_check(board) == board.placement.stage = "mate"

is_checkmate(board) == is_check(board) /\ legal_moves(board) = {}

is_stalemate(board) == ~is_check(board) /\ legal_moves(board) = {}

is_insufficient_material(board) == board.placement.stage \in {"bare", "stale_bare"}

\* board.is_fifty_moves(): the clock has run out and a legal move exists
is_fifty_moves(board) ==
    board.halfmove_clock >= HalfmoveLimit /\ legal_moves(board) # {}

can_claim_fifty_moves(board) ==
    \/ is_fifty_moves(board)
    \/ /\ board.halfmove_clock >= HalfmoveLimit - 1
       /\ \E m \in legal_moves(board) :
             ~is_zeroing(board, m) /\ is_fifty_moves(push(board, m))

\* board._transposition_key(): placement and side to move, not the clocks
transposition_key(b) == <<b.placement, b.turn>>

\* The positions can_claim_threefold_repetition counts: it pops the move
\* stack from the top, stops at the first irreversible move, and counts the
\* position each popped reversible move was played from.
CountedFrom(board) ==
    LET s == board.move_stack
        irr(i) == is_irreversible(BoardFromFen(s[i].from), s[i].move)
    IN {i \in 1..Len(s) : \A j \in i..Len(s) : ~irr(j)}

Occurrences(board, key) ==
    (IF transposition_key(board) = key THEN 1 ELSE 0)
    + Cardinality({i \in CountedFrom(board) :
                     transposition_key(board.move_stack[i].from) = key})

can_claim_threefold_repetition(board) ==
    \/ Occurrences(board, transposition_key(board)) >= 3
    \/ \E m \in legal_moves(board) :
          Occurrences(board, transposition_key(push(board, m))) >= 2

\* ------------------------------------------------------------ GameManager

\* None where a GameState object is expected
NoGame == [none |-> TRUE]

\* GameState(...) as create_game builds it (created_at, a timestamp nothing
\* reads, is left out)
NewGameState(game_id, player_color, bot_elo) ==
    [game_id      |-> game_id,
     board_fen    |-> fen(InitialBoard),
     player_color |-> player_color,
     bot_elo      |-> bot_elo,
     move_history |-> <<>>,
     status       |-> "ongoing",
     winner       |-> None,
     current_turn |-> "white",
     last_move    |-> None]

\* create_game that stores the rating as it was passed
create_game_unclamped(gs, game_id, player_color, bot_elo) ==
    IF player_color \notin {"white", "black"}
    THEN [raised |-> "ValueError", games |-> gs, ret |-> NoGame]
    ELSE LET game_state == NewGameState(game_id, player_color, bot_elo)
         IN [raised |-> None,
             games  |-> [g \in DOMAIN gs \cup {game_id} |->
                            IF g = game_id THEN game_state ELSE gs[g]],
             ret    |-> game_state]

\* GameManager.create_game; game_id is the value uuid4 returns
create_game(gs, game_id, player_color, bot_elo) ==
    IF player_color \notin {"white", "black"}
    THEN [raised |-> "ValueError", games |-> gs, ret |-> NoGame]
    ELSE LET game_state == NewGameState(game_id, player_color,
                                        Max(MIN_ELO, Min(MAX_ELO, bot_elo)))
         IN [raised |-> None,
             games  |-> [g \in DOMAIN gs \cup {game_id} |->
                            IF g = game_id THEN game_state ELSE gs[g]],
             ret    |-> game_state]

\* GameManager.get_game: the state, or None
get_game(gs, game_id) == IF game_id \in DOMAIN gs THEN gs[game_id] ELSE NoGame

\* GameManager._update_game_status: the first rule that matches; the last
\* branch sets the status and leaves the winner as it was
_update_game_status(game, board) ==
    IF is_checkmate(board) THEN
        [game EXCEPT !.status = "checkmate",
                     !.winner = IF board.turn = "white" THEN "black" ELSE "white"]
    ELSE IF is_stalemate(board) THEN
        [game EXCEPT !.status = "stalemate", !.winner = None]
    ELSE IF is_insufficient_material(board) THEN
        [game EXCEPT !.status = "draw", !.winner = None]
    ELSE IF can_claim_fifty_moves(board) THEN
        [game EXCEPT !.status = "draw", !.winner = None]
    ELSE IF can_claim_threefold_repetition(board) THEN
        [game EXCEPT !.status = "draw", !.winner = None]
    ELSE
        [game EXCEPT !.status = "ongoing"]

\* commit_move that forgets to append the move to the history
commit_move_no_append(gs, game, board, move_uci) ==
    [games |-> [gs EXCEPT ![game.game_id] =
                   _update_game_status(
                       [game EXCEPT
                          !.board_fen    = fen(board),
                          !.last_move    = move_uci,
                          !.current_turn = IF board.turn = "white" THEN "white" ELSE "black"],
                       board)],
     ret   |-> TRUE]

\* apply_move, lines 125-135: the update of the game once the move is
\* pushed on the board
commit_move(gs, game, board, move_uci) ==
    [games |-> [gs EXCEPT ![game.game_id] =
                   _update_game_status(
                       [game EXCEPT
                          !.board_fen    = fen(board),
                          !.move_history = Append(game.move_history, move_uci),
                          !.last_move    = move_uci,
                          !.current_turn = IF board.turn = "white" THEN "white" ELSE "black"],
                       board)],
     ret   |-> TRUE]

\* try_move without the test that the move is legal
try_move_unchecked(gs, game, board, move, move_uci) ==
    IF move = ValueError THEN [games |-> gs, ret |-> FALSE]
    ELSE commit_move(gs, game, push(board, move), move_uci)

\* apply_move, lines 113-139: the try block, for the game found
try_move(gs, game, board, move, move_uci) ==
    IF move = ValueError THEN [games |-> gs, ret |-> FALSE]
    ELSE IF move \notin legal_moves(board) THEN [games |-> gs, ret |-> FALSE]
    ELSE commit_move(gs, game, push(board, move), move_uci)

\* GameManager.apply_move: the board is set up again from the stored text
\* on every call
apply_move(gs, game_id, move_uci) ==
    IF get_game(gs, game_id) = NoGame THEN [games |-> gs, ret |-> FALSE]
    ELSE try_move(gs, gs[game_id], BoardFromFen(gs[game_id].board_fen),
                  from_uci(move_uci), move_uci)

\* GameManager.get_legal_moves
get_legal_moves(gs, game_id) ==
    IF get_game(gs, game_id) = NoGame THEN {}
    ELSE {uci(m) : m \in legal_moves(BoardFromFen(gs[game_id].board_fen))}

\* delete_game that answers True whether or not the game was there
delete_game_always_true(gs, game_id) ==
    [games |-> [g \in DOMAIN gs \ {game_id} |-> gs[g]], ret |-> TRUE]

\* GameManager.delete_game
delete_game(gs, game_id) ==
    IF game_id \in DOMAIN gs
    THEN [games |-> [g \in DOMAIN gs \ {game_id} |-> gs[g]], ret |-> TRUE]
    ELSE [games |-> gs, ret |-> FALSE]

\* GameManager.get_game_count
get_game_count(gs) == Cardinality(DOMAIN gs)

\* -------------------------------------------------------- StockfishEngine

\* board.legal_moves in the order the library generates them
MoveOrder ==
    <<"e2e4", "f2f3", "g1f3", "f3g1", "g8f6", "f6g8",
      "d1f7", "d1d8", "d8d1", "d8h4", "e1e2">>

LegalList(board) ==
    LET isLegal(t) == from_uci(t) \in legal_moves(board)
    IN SelectSeq(MoveOrder, isLegal)

\* the answers engine.play and engine.analyse can give: a move with the
\* search information, no move ("bestmove (none)"), or an exception raised
\* by the engine process
EngineKinds == {"first", "second", "nomove", "crash"}

\* the kinds of answer that carry a move
MoveKinds == {"first", "second"}

\* the information that comes with an answer: a centipawn score or a mate
\* score relative to the side to move, or no score at all
EngineInfos == {[depth |-> 1], [depth |-> 1, score |-> [cp |-> 35]],
                [depth |-> 1, score |-> [mate |-> 2]]}

EngineChoices ==
    {[kind |-> k, info |-> i] : k \in MoveKinds, i \in EngineInfos}
    \cup {[kind |-> k] : k \in EngineKinds \ MoveKinds}

\* None where a score is expected
NoScore == [none |-> TRUE]

\* the options of the engine process before the wrapper configures any
DefaultOptions == [Skill_Level |-> 20, UCI_LimitStrength |-> FALSE, UCI_Elo |-> MIN_ELO]

\* _elo_to_skill that rounds to the nearest level, halves upwards
_elo_to_skill_rounded(elo) ==
    Max(0, Min(20, (((elo - MIN_ELO) * 20) * 2 + (MAX_ELO - MIN_ELO))
                     \div (2 * (MAX_ELO - MIN_ELO))))

\* _elo_to_skill whose level wraps around at 20 instead of stopping there
_elo_to_skill_wrapped(elo) ==
    (((elo - MIN_ELO) * 20) \div (MAX_ELO - MIN_ELO)) % 20

\* StockfishEngine._elo_to_skill: int() cuts the fraction off
_elo_to_skill(elo) ==
    Max(0, Min(20, ((elo - MIN_ELO) * 20) \div (MAX_ELO - MIN_ELO)))

\* StrengthOptions that lifts the limit only above MAX_ELO
StrengthOptions_above(requested) ==
    LET elo == Max(MIN_ELO, Min(MAX_ELO, requested))
        skill == _elo_to_skill(elo)
    IN  IF elo > MAX_ELO
        THEN [Skill_Level |-> 20, UCI_LimitStrength |-> FALSE]
        ELSE [Skill_Level |-> skill, UCI_LimitStrength |-> TRUE, UCI_Elo |-> elo]

\* get_best_move, lines 60-79: the options passed to engine.configure for a
\* requested rating
StrengthOptions(requested) ==
    LET elo   == Max(MIN_ELO, Min(MAX_ELO, requested))
        skill == _elo_to_skill(elo)
    IN IF elo >= MAX_ELO
       THEN [Skill_Level |-> 20, UCI_LimitStrength |-> FALSE]
       ELSE [Skill_Level |-> skill, UCI_LimitStrength |-> TRUE, UCI_Elo |-> elo]

\* engine.configure: the named options change, the others stay
configure(opts, new) ==
    [n \in DOMAIN opts |-> IF n \in DOMAIN new THEN new[n] ELSE opts[n]]

\* Score.score(): the centipawns of a centipawn score, None of a mate score
relative_score(score) ==
    IF "cp" \in DOMAIN score THEN [cp |-> score.cp] ELSE NoScore

\* get_best_move, lines 97-102: the score is handed on as the engine gave it
score_cp(info) ==
    IF "score" \in DOMAIN info THEN relative_score(info.score) ELSE NoScore

\* get_best_move that hands back an empty move when the engine gave none
get_best_move_empty_move(board, requested, choice) ==
    IF choice.kind = "crash"
    THEN [raised |-> "EngineError", configured |-> StrengthOptions(requested)]
    ELSE IF choice.kind = "nomove" \/ LegalList(board) = <<>>
    THEN [raised |-> None, move |-> None, score |-> NoScore,
          configured |-> StrengthOptions(requested)]
    ELSE LET l == LegalList(board)
         IN [raised     |-> None,
             move       |-> from_uci(IF choice.kind = "first" THEN l[1]
                                     ELSE l[(1 % Len(l)) + 1]),
             score      |-> score_cp(choice.info),
             configured |-> StrengthOptions(requested)]

\* StockfishEngine.get_best_move: a legal move of the board with its score,
\* or an exception; `configured` is what it passed to engine.configure
\* before asking
get_best_move(board, requested, choice) ==
    IF choice.kind = "crash"
    THEN [raised |-> "EngineError", configured |-> StrengthOptions(requested)]
    ELSE IF choice.kind = "nomove" \/ LegalList(board) = <<>>
    THEN [raised |-> "Stockfish failed to generate a move",
          configured |-> StrengthOptions(requested)]
    ELSE LET l == LegalList(board)
         IN [raised     |-> None,
             move       |-> from_uci(IF choice.kind = "first" THEN l[1]
                                     ELSE l[(1 % Len(l)) + 1]),
             score      |-> score_cp(choice.info),
             configured |-> StrengthOptions(requested)]

\* StockfishEngine.get_evaluation: the score turned to white's point of view
get_evaluation(board, choice) ==
    IF choice.kind = "crash" THEN [raised |-> "EngineError"]
    ELSE IF choice.kind = "nomove" \/ score_cp(choice.info) = NoScore THEN [raised |-> None, ret |-> NoScore]
    ELSE [raised |-> None,
          ret    |-> IF board.turn = "white" THEN score_cp(choice.info)
                     ELSE [cp |-> 0 - score_cp(choice.info).cp]]

\* ------------------------------------------------------------------ main.py

\* attribute lookup on a dataclass instance: AttributeError for a name the
\* class does not define
HasAttr(obj, name) == name \in DOMAIN obj

AttributeErrorText == "'GameState' object has no attribute 'bot_level'"

\* None where a response body is expected
NoBody == [none |-> TRUE]

\* raise HTTPException(status_code, detail): the store and the engine stay
\* as the handler left them
HTTPError(gs, calls, applies, code, detail) ==
    [games |-> gs, engineCalls |-> calls, applies |-> applies,
     resp |-> [code |-> code, detail |-> detail, body |-> NoBody]]

\* a returned response model: status 200
HTTPOk(gs, calls, applies, body) ==
    [games |-> gs, engineCalls |-> calls, applies |-> applies,
     resp |-> [code |-> 200, detail |-> None, body |-> body]]

PlayerMoveBody(game, bot_move, evaluation, message) ==
    [success    |-> TRUE,
     board_fen  |-> game.board_fen,
     bot_move   |-> bot_move,
     status     |-> game.status,
     winner     |-> game.winner,
     message    |-> message,
     evaluation |-> evaluation]

\* player_move, lines 273-284: the bot move is applied, whatever apply_move
\* returns, and the game is read again for the response
reply_applied(r2, calls, game_id, best) ==
    HTTPOk(r2.games, calls, <<TRUE, r2.ret>>,
           PlayerMoveBody(get_game(r2.games, game_id), uci(best.move), best.score, None))

\* player_move, lines 269-275: the engine has been asked
reply_move(gs, calls, game_id, best) ==
    IF best.raised # None THEN HTTPError(gs, calls, <<TRUE>>, 500, best.raised)
    ELSE reply_applied(apply_move(gs, game_id, uci(best.move)), calls, game_id, best)

\* after_player_move without the return for a game the player's move ended
after_player_move_no_return(gs, calls, game, game_id, choice) ==
    IF ~HasAttr(game, "bot_level")
    THEN HTTPError(gs, calls, <<TRUE>>, 500, AttributeErrorText)
    ELSE reply_move(gs, calls + 1, game_id,
                    get_best_move(BoardFromFen(game.board_fen), game["bot_level"], choice))

\* player_move, lines 255-271: the player's move is applied and the game is
\* read again
after_player_move(gs, calls, game, game_id, choice) ==
    IF game.status # "ongoing"
    THEN HTTPOk(gs, calls, <<TRUE>>,
                PlayerMoveBody(game, None, None, "Game ended: " \o game.status))
    ELSE IF ~HasAttr(game, "bot_level")
    THEN HTTPError(gs, calls, <<TRUE>>, 500, AttributeErrorText)
    ELSE reply_move(gs, calls + 1, game_id,
                    get_best_move(BoardFromFen(game.board_fen), game["bot_level"], choice))

\* player_move, lines 251-253
player_move_applied(gs, r1, calls, game_id, choice) ==
    IF ~r1.ret THEN HTTPError(gs, calls, <<FALSE>>, 400, "Invalid move")
    ELSE after_player_move(r1.games, calls, get_game(r1.games, game_id), game_id, choice)

\* player_move_found with the turn checked before the status
player_move_found_turn_first(gs, calls, game, board, move_uci, choice) ==
    IF ~(\/ game.player_color = "white" /\ board.turn = "white"
         \/ game.player_color = "black" /\ board.turn = "black")
    THEN HTTPError(gs, calls, <<>>, 400, "Not player's turn")
    ELSE IF game.status # "ongoing"
    THEN HTTPError(gs, calls, <<>>, 400, "Game is " \o game.status)
    ELSE player_move_applied(gs, apply_move(gs, game.game_id, move_uci), calls,
                             game.game_id, choice)

\* player_move, lines 239-253, for the game found
player_move_found(gs, calls, game, board, move_uci, choice) ==
    IF game.status # "ongoing"
    THEN HTTPError(gs, calls, <<>>, 400, "Game is " \o game.status)
    ELSE IF ~(\/ game.player_color = "white" /\ board.turn = "white"
              \/ game.player_color = "black" /\ board.turn = "black")
    THEN HTTPError(gs, calls, <<>>, 400, "Not player's turn")
    ELSE player_move_applied(gs, apply_move(gs, game.game_id, move_uci), calls,
                             game.game_id, choice)

\* POST /player_move.  sf: the engine object exists; calls: get_best_move
\* calls made so far; choice: what the engine process answers if asked.
\* applies lists what each apply_move call of the handler returned.
player_move(gs, sf, calls, game_id, move_uci, choice) ==
    IF ~sf THEN HTTPError(gs, calls, <<>>, 500, "Stockfish engine not available")
    ELSE IF get_game(gs, game_id) = NoGame
    THEN HTTPError(gs, calls, <<>>, 404, "Game not found")
    ELSE player_move_found(gs, calls, gs[game_id], BoardFromFen(gs[game_id].board_fen),
                           move_uci, choice)

\* the request model of /start_game: anything else is answered 422 before
\* the handler runs
ValidStartRequest(player_color, bot_level) ==
    player_color \in {"white", "black"} /\ bot_level >= 0 /\ bot_level <= 20

StartGameData(game, bot_level) ==
    [game_id      |-> game.game_id,
     board_fen    |-> game.board_fen,
     current_turn |-> game.current_turn,
     player_color |-> game.player_color,
     bot_level    |-> bot_level,
     bot_move     |-> None]

\* start_game, lines 205-214: the bot move is applied, whatever apply_move
\* returns, and the game is read again for the response
first_move_applied(r, calls, data, best) ==
    HTTPOk(r.games, calls, <<r.ret>>,
           [data EXCEPT
              !.bot_move     = uci(best.move),
              !.board_fen    = get_game(r.games, data.game_id).board_fen,
              !.current_turn = get_game(r.games, data.game_id).current_turn])

\* start_game, lines 200-214, with the response data built
first_move(gs, calls, data, player_color, best) ==
    IF player_color # "black"
    THEN HTTPOk(gs, calls, <<>>, data)
    ELSE IF best.raised # None THEN HTTPError(gs, calls + 1, <<>>, 500, best.raised)
    ELSE first_move_applied(apply_move(gs, data.game_id, uci(best.move)), calls + 1, data, best)

\* start_game, lines 189-214: the try block, create_game called
game_created(c, calls, player_color, bot_level, choice) ==
    IF c.raised # None THEN HTTPError(c.games, calls, <<>>, 500, c.raised)
    ELSE IF ~HasAttr(c.ret, "bot_level")
    THEN HTTPError(c.games, calls, <<>>, 500, AttributeErrorText)
    ELSE first_move(c.games, calls, StartGameData(c.ret, c.ret["bot_level"]), player_color,
                    get_best_move(BoardFromFen(c.ret.board_fen), bot_level, choice))

\* POST /start_game.  uuid: the id uuid4 returns inside create_game.
start_game(gs, sf, calls, uuid, player_color, bot_level, choice) ==
    IF ~ValidStartRequest(player_color, bot_level)
    THEN HTTPError(gs, calls, <<>>, 422, "validation error")
    ELSE IF ~sf THEN HTTPError(gs, calls, <<>>, 500, "Stockfish engine not available")
    ELSE game_created(create_game(gs, uuid, player_color, bot_level), calls,
                      player_color, bot_level, choice)

\* ------------------------------------------------------------------ system

NoGames == [g \in {} |-> NoGame]

RECURSIVE SumOver(_, _)
SumOver(f, S) ==
    IF S = {} THEN 0
    ELSE LET x == CHOOSE y \in S : TRUE
         IN f[x] + SumOver(f, S \ {x})

\* moves held in all the histories of a store
TotalMoves(gs) == SumOver([g \in DOMAIN gs |-> Len(gs[g].move_history)], DOMAIN gs)

\* moves held in the longest history of a store
LongestHistory(gs) ==
    IF DOMAIN gs = {} THEN 0
    ELSE LET g == CHOOSE x \in DOMAIN gs :
                    \A y \in DOMAIN gs : Len(gs[y].move_history) <= Len(gs[x].move_history)
         IN Len(gs[g].move_history)

WithinBounds(gs) ==
    /\ LongestHistory(gs) <= MaxMoves
    /\ TotalMoves(gs) - LongestHistory(gs) <= MaxOtherMoves

\* number of True among the values apply_move returned
Successes(applies) == Cardinality({i \in 1..Len(applies) : applies[i]})

\* the success counts after an operation that turned store gs into gs2 and
\* whose apply_move calls, all on game_id, returned `applies`
Counted(gs2, game_id, applies) ==
    [g \in DOMAIN gs2 |->
        (IF g \in DOMAIN applied THEN applied[g] ELSE 0)
        + (IF g = game_id THEN Successes(applies) ELSE 0)]

\* the colours and ratings callers pass to create_game
CreateColors == {"white", "black", "green"}

CreateElos == {5}

\* the colour and level clients post to /start_game
StartRequests == {<<"white", 5>>, <<"black", 5>>, <<"green", 5>>, <<"white", 21>>}

\* the move texts tried on a game: what is legal in its position, a move
\* that is legal in the starting position only, and a text that does not parse
TextsFor(gs, game_id) ==
    get_legal_moves(gs, game_id) \cup {"e2e4", "zz99"}

\* the event loop is between two calls
NoTask == [none |-> TRUE]

\* no single call is traced: the engine as it was started, nothing in flight
NoCalls ==
    /\ options = DefaultOptions
    /\ reqs = NoGames
    /\ applyCalls = NoGames
    /\ running = NoTask
    /\ elo_rating = MIN_ELO
    /\ skill_level = <<>>
    /\ move_time = DefaultMoveTime
    /\ adjusted_time = <<>>
    /\ wrapper = "constructed"
    /\ engine = "running"
    /\ quits = 0

\* the lifespan hook has run and StockfishEngine(...) has not raised: an
\* empty store, and the engine object exists
Init ==
    /\ games = NoGames
    /\ used = {}
    /\ stockfish = TRUE
    /\ engineCalls = 0
    /\ applied = NoGames
    /\ call = [op |-> "lifespan"]
    /\ resp = [ret |-> None]
    /\ NoCalls

CreateGame(uuid, player_color, bot_elo) ==
    \E r \in {create_game(games, uuid, player_color, bot_elo)} :
       /\ games' = r.games
       /\ used' = IF r.raised = None THEN used \cup {uuid} ELSE used
       /\ applied' = Counted(r.games, uuid, <<>>)
       /\ call' = [op |-> "create_game", player_color |-> player_color, bot_elo |-> bot_elo]
       /\ resp' = [raised |-> r.raised, ret |-> r.ret]
       /\ UNCHANGED <<stockfish, engineCalls>>
       /\ UNCHANGED unitVars

ApplyMove(game_id, move_uci) ==
    \E r \in {apply_move(games, game_id, move_uci)} :
       /\ WithinBounds(r.games)
       /\ games' = r.games
       /\ applied' = Counted(r.games, game_id, <<r.ret>>)
       /\ call' = [op |-> "apply_move", game_id |-> game_id, move_uci |-> move_uci]
       /\ resp' = [ret |-> r.ret]
       /\ UNCHANGED <<used, stockfish, engineCalls>>
       /\ UNCHANGED unitVars

DeleteGame(game_id) ==
    \E r \in {delete_game(games, game_id)} :
       /\ games' = r.games
       /\ applied' = Counted(r.games, game_id, <<>>)
       /\ call' = [op |-> "delete_game", game_id |-> game_id]
       /\ resp' = [ret |-> r.ret]
       /\ UNCHANGED <<used, stockfish, engineCalls>>
       /\ UNCHANGED unitVars

\* the engine's answer, should the handler ask for one, is any of EngineChoices
StartGame(uuid, player_color, bot_level) ==
    \E r \in {start_game(games, stockfish, engineCalls, uuid, player_color, bot_level, ch) :
                 ch \in EngineChoices} :
       /\ WithinBounds(r.games)
       /\ games' = r.games
       /\ used' = IF uuid \in DOMAIN r.games THEN used \cup {uuid} ELSE used
       /\ engineCalls' = r.engineCalls
       /\ applied' = Counted(r.games, uuid, r.applies)
       /\ call' = [op |-> "start_game", player_color |-> player_color, bot_level |-> bot_level]
       /\ resp' = r.resp
       /\ UNCHANGED stockfish
       /\ UNCHANGED unitVars

PlayerMove(game_id, move_uci) ==
    \E r \in {player_move(games, stockfish, engineCalls, game_id, move_uci, ch) :
                 ch \in EngineChoices} :
       /\ WithinBounds(r.games)
       /\ games' = r.games
       /\ engineCalls' = r.engineCalls
       /\ applied' = Counted(r.games, game_id, r.applies)
       /\ call' = [op |-> "player_move", game_id |-> game_id, move_uci |-> move_uci]
       /\ resp' = r.resp
       /\ UNCHANGED <<used, stockfish>>
       /\ UNCHANGED unitVars

\* uuid4 never returns an id it has returned before
FreshIds == GameIds \ used

Next ==
    \/ \E uuid \in FreshIds, c \in CreateColors, e \in CreateElos : CreateGame(uuid, c, e)
    \/ \E g \in GameIds : \E m \in TextsFor(games, g) : ApplyMove(g, m)
    \/ \E g \in GameIds : DeleteGame(g)
    \/ \E uuid \in FreshIds, q \in StartRequests : StartGame(uuid, q[1], q[2])
    \/ \E g \in GameIds : \E m \in TextsFor(games, g) : PlayerMove(g, m)

Spec == Init /\ [][Next]_vars

\* ------------------------------------- the two game handlers on their own

\* clients that reach the store through /start_game and /player_move only
NextApi ==
    \/ \E uuid \in FreshIds, q \in StartRequests : StartGame(uuid, q[1], q[2])
    \/ \E g \in GameIds : \E m \in TextsFor(games, g) : PlayerMove(g, m)

SpecApi == Init /\ [][NextApi]_vars

\* ------------------------------------------ the store, created and deleted

\* the ratings callers pass to create_game: below, at, inside and above the
\* supported range
StoreElos == {0 - 7, 5, MIN_ELO, 2000, MAX_ELO, 3500}

NextStore ==
    \/ \E uuid \in FreshIds, c \in CreateColors, e \in StoreElos : CreateGame(uuid, c, e)
    \/ \E g \in GameIds : DeleteGame(g)

SpecStore == Init /\ [][NextStore]_vars

\* --------------------------------------------------- rating to skill level

\* the ratings passed to get_best_move
Ratings == (MIN_ELO - RatingMargin)..(MAX_ELO + RatingMargin)

\* get_best_move, lines 60-64: the rating is clamped and converted
SkillLevel(requested) ==
    /\ elo_rating' = requested
    /\ skill_level' = <<_elo_to_skill(Max(MIN_ELO, Min(MAX_ELO, requested)))>>
    /\ UNCHANGED <<storeVars, timeVars, lifeVars, options, reqs, applyCalls, running>>

NextSkill == \E e \in Ratings : SkillLevel(e)

SpecSkill == Init /\ [][NextSkill]_vars

\* ------------------------------------------------------- the time limit

\* adjusted_time is held as a whole number of TimeScale-ths of a millisecond
TimeScale == 2 * (MAX_ELO - MIN_ELO)

\* AdjustedTime without the halving of the rating factor
AdjustedTime_full_factor(base, elo) ==
    (base * (TimeScale + 2 * (elo - MIN_ELO)))

\* get_best_move, lines 83-84: move_time * (1 + rating_factor * 0.5), with
\* rating_factor = (elo - MIN_ELO) / (MAX_ELO - MIN_ELO), in TimeScale-ths
AdjustedTime(base, elo) ==
    (base * (TimeScale + (elo - MIN_ELO)))

\* the ratings passed to get_best_move: around both ends of the range, and
\* its middle
BudgetRatings ==
    ((MIN_ELO - RatingMargin)..(MIN_ELO + RatingMargin))
       \cup {(MIN_ELO + MAX_ELO) \div 2}
       \cup ((MAX_ELO - RatingMargin)..(MAX_ELO + RatingMargin))

\* the move times passed to get_best_move, in milliseconds
MoveTimes == {1, DefaultMoveTime}

\* get_best_move, lines 60-84: the rating is clamped and the limit computed
TimeLimit(requested, base) ==
    /\ elo_rating' = requested
    /\ move_time' = base
    /\ adjusted_time' = <<AdjustedTime(base, Max(MIN_ELO, Min(MAX_ELO, requested)))>>
    /\ UNCHANGED <<storeVars, lifeVars, options, reqs, applyCalls, running, skill_level>>

NextTime == \E e \in BudgetRatings, t \in MoveTimes : TimeLimit(e, t)

SpecTime == Init /\ [][NextTime]_vars

\* ------------------------------------------- the engine wrapper, call by call

\* the calls of wrapper methods that can be in flight together
Requests == {"r1", "r2"}

\* the positions passed to the wrapper: white to move, black to move, and
\* a checkmate, where the engine has no move to give
EngineFens ==
    {fen(InitialBoard),
     fen(push(InitialBoard, from_uci("e2e4"))),
     fen(push(push(InitialBoard, from_uci("f2f3")), from_uci("d8h4")))}

\* the ratings passed to the wrapper: a bot_level as the handlers pass it,
\* a rating inside the range, the maximum, and one above it
EngineElos == {5, 2160, MAX_ELO, 3500}

\* f with one more entry
Extend(f, k, v) == [x \in DOMAIN f \cup {k} |-> IF x = k THEN v ELSE f[x]]

\* the event loop replaced by a pool of threads: any call may step at any time
loop_free_threads(current, task) == TRUE

\* The handlers are coroutines without an await and the wrapper methods are
\* blocking calls: the event loop runs a call to its end before it starts
\* the next.  current is the call the loop is in, or NoTask.
loop_free(current, task) == current = NoTask \/ current = [id |-> task]

\* a store with one game, on which nothing is in flight
InitEngine ==
    /\ games = create_game(NoGames, "g1", "black", 5).games
    /\ used = {"g1"}
    /\ stockfish = TRUE
    /\ engineCalls = 0
    /\ applied = [g \in {"g1"} |-> 0]
    /\ call = [op |-> "lifespan"]
    /\ resp = [ret |-> None]
    /\ NoCalls

\* a caller calls stockfish.get_best_move(board, elo)
CallGetBestMove(r, f, e) ==
    /\ r \notin DOMAIN reqs
    /\ reqs' = Extend(reqs, r, [op |-> "get_best_move", pc |-> "called",
                                fen |-> f, elo |-> e])
    /\ UNCHANGED <<storeVars, timeVars, lifeVars, options, applyCalls, running, elo_rating, skill_level>>

\* a caller calls stockfish.get_evaluation(board)
CallGetEvaluation(r, f) ==
    /\ r \notin DOMAIN reqs
    /\ reqs' = Extend(reqs, r, [op |-> "get_evaluation", pc |-> "called", fen |-> f])
    /\ UNCHANGED <<storeVars, timeVars, lifeVars, options, applyCalls, running, elo_rating, skill_level>>

\* get_best_move, lines 57-79: the rating is clamped and the engine configured
Configure(r) ==
    /\ r \in DOMAIN reqs
    /\ reqs[r].op = "get_best_move"
    /\ reqs[r].pc = "called"
    /\ loop_free(running, r)
    /\ options' = configure(options, StrengthOptions(reqs[r].elo))
    /\ reqs' = [reqs EXCEPT ![r].pc = "configured"]
    /\ running' = [id |-> r]
    /\ UNCHANGED <<storeVars, timeVars, lifeVars, applyCalls, elo_rating, skill_level>>

\* get_best_move, lines 81-104: engine.play, once, under the options the
\* process has at that moment, and the result or the exception
Play(r) ==
    /\ r \in DOMAIN reqs
    /\ reqs[r].op = "get_best_move"
    /\ reqs[r].pc = "configured"
    /\ loop_free(running, r)
    /\ \E ch \in EngineChoices :
          reqs' = [reqs EXCEPT ![r] =
                     [op |-> "get_best_move", pc |-> "done",
                      fen |-> reqs[r].fen, elo |-> reqs[r].elo,
                      played_with |-> options, plays |-> 1, answer |-> ch,
                      result |-> get_best_move(BoardFromFen(reqs[r].fen), reqs[r].elo, ch)]]
    /\ running' = NoTask
    /\ UNCHANGED <<storeVars, timeVars, lifeVars, options, applyCalls, elo_rating, skill_level>>

\* get_evaluation, lines 131-142: engine.analyse and the score
Analyse(r) ==
    /\ r \in DOMAIN reqs
    /\ reqs[r].op = "get_evaluation"
    /\ reqs[r].pc = "called"
    /\ loop_free(running, r)
    /\ \E ch \in EngineChoices :
          reqs' = [reqs EXCEPT ![r] =
                     [op |-> "get_evaluation", pc |-> "done", fen |-> reqs[r].fen,
                      answer |-> ch,
                      result |-> get_evaluation(BoardFromFen(reqs[r].fen), ch)]]
    /\ running' = NoTask
    /\ UNCHANGED <<storeVars, timeVars, lifeVars, options, applyCalls, elo_rating, skill_level>>

NextEngine ==
    \/ \E r \in Requests, f \in EngineFens, e \in EngineElos : CallGetBestMove(r, f, e)
    \/ \E r \in Requests, f \in EngineFens : CallGetEvaluation(r, f)
    \/ \E r \in Requests : Configure(r)
    \/ \E r \in Requests : Play(r)
    \/ \E r \in Requests : Analyse(r)

SpecEngine == InitEngine /\ [][NextEngine]_vars

\* ------------------------------------------------ apply_move, step by step

Calls == 1..MaxCalls

\* the histories the game has when the calls start
StartHistories == {<<>>, <<"e2e4">>, <<"f2f3">>}

\* the store with one game on which the moves of history were applied
RECURSIVE StoreAfter(_)
StoreAfter(history) ==
    IF history = <<>> THEN create_game(NoGames, "g1", "white", 5).games
    ELSE apply_move(StoreAfter(SubSeq(history, 1, Len(history) - 1)), "g1",
                    history[Len(history)]).games

InitCalls ==
    /\ \E h \in StartHistories :
          /\ games = StoreAfter(h)
          /\ applied = [g \in {"g1"} |-> Len(h)]
    /\ used = {"g1"}
    /\ stockfish = TRUE
    /\ engineCalls = 0
    /\ call = [op |-> "lifespan"]
    /\ resp = [ret |-> None]
    /\ NoCalls

\* a caller calls game_manager.apply_move(game_id, move_uci); seen and
\* seen_history note the game as it was at that moment
CallApplyMove(c, game_id, move_uci) ==
    /\ c \notin DOMAIN applyCalls
    /\ applyCalls' = Extend(applyCalls, c,
                            [pc |-> "called", game_id |-> game_id, move_uci |-> move_uci,
                             seen |-> games[game_id].board_fen,
                             seen_history |-> games[game_id].move_history])
    /\ UNCHANGED <<storeVars, timeVars, lifeVars, options, reqs, running, elo_rating, skill_level>>

\* apply_move, lines 108-123: the game is looked up, the board set up from
\* its stored position, the move parsed, tested and pushed on that board
CheckMove(c) ==
    /\ c \in DOMAIN applyCalls
    /\ applyCalls[c].pc = "called"
    /\ loop_free(running, c)
    /\ LET game  == get_game(games, applyCalls[c].game_id)
           move  == from_uci(applyCalls[c].move_uci)
           board == BoardFromFen(game.board_fen)
       IN IF game = NoGame \/ move = ValueError \/ move \notin legal_moves(board)
          THEN /\ applyCalls' = [applyCalls EXCEPT
                                  ![c] = Extend(Extend(@, "pc", "done"), "ret", FALSE)]
               /\ running' = NoTask
          ELSE /\ applyCalls' = [applyCalls EXCEPT
                                  ![c] = Extend(Extend(@, "pc", "pushed"),
                                                "board", push(board, move))]
               /\ running' = [id |-> c]
    /\ UNCHANGED <<storeVars, timeVars, lifeVars, options, reqs, elo_rating, skill_level>>

\* apply_move, lines 125-135: the game is updated from the board of this call
UpdateGame(c) ==
    /\ c \in DOMAIN applyCalls
    /\ applyCalls[c].pc = "pushed"
    /\ loop_free(running, c)
    /\ games' = commit_move(games, games[applyCalls[c].game_id], applyCalls[c].board,
                            applyCalls[c].move_uci).games
    /\ applied' = Counted(games', applyCalls[c].game_id, <<TRUE>>)
    /\ applyCalls' = [applyCalls EXCEPT
                       ![c] = Extend(Extend(@, "pc", "done"), "ret", TRUE)]
    /\ running' = NoTask
    /\ UNCHANGED <<used, stockfish, engineCalls, call, resp,
                   options, reqs, elo_rating, skill_level, timeVars, lifeVars>>

NextCalls ==
    \/ \E c \in Calls : \E m \in TextsFor(games, "g1") : CallApplyMove(c, "g1", m)
    \/ \E c \in Calls : CheckMove(c)
    \/ \E c \in Calls : UpdateGame(c)

SpecCalls == InitCalls /\ [][NextCalls]_vars

\* ------------------------------------- the life of the StockfishEngine object

\* engine.quit() calls made in the longest life of the object
MaxQuits == 3

\* what SimpleEngine.quit() does on a process that has already terminated
\* is the library's: the call returns, or it raises EngineTerminatedError
QuitOutcomes == {None, "EngineTerminatedError"}

\* StockfishEngine.close, lines 144-148: engine.quit() whenever the field
\* is set; the field is never reset
close(eng, q, outcome) ==
    IF eng = "None" THEN [engine |-> eng, quits |-> q, raised |-> None]
    ELSE [engine |-> "terminated", quits |-> q + 1,
          raised |-> IF eng = "running" THEN None ELSE outcome]

\* before the lifespan hook has constructed the engine object
InitLife ==
    /\ games = NoGames
    /\ used = {}
    /\ stockfish = FALSE
    /\ engineCalls = 0
    /\ applied = NoGames
    /\ call = [op |-> "lifespan"]
    /\ resp = [ret |-> None]
    /\ options = DefaultOptions
    /\ reqs = NoGames
    /\ applyCalls = NoGames
    /\ running = NoTask
    /\ elo_rating = MIN_ELO
    /\ skill_level = <<>>
    /\ move_time = DefaultMoveTime
    /\ adjusted_time = <<>>
    /\ wrapper = "absent"
    /\ engine = "None"
    /\ quits = 0

\* lifespan, lines 70-75, and __init__, lines 20-38: popen_uci starts the
\* process, or fails; then RuntimeError is raised and main.stockfish stays
\* None, the object being left to the garbage collector
Construct(started) ==
    /\ wrapper = "absent"
    /\ wrapper' = "constructed"
    /\ engine' = IF started THEN "running" ELSE "None"
    /\ stockfish' = started
    /\ call' = [op |-> "__init__"]
    /\ resp' = [raised |-> IF started THEN None ELSE "RuntimeError"]
    /\ UNCHANGED <<games, used, engineCalls, applied, timeVars, quits,
                   options, reqs, applyCalls, running, elo_rating, skill_level>>

\* a whole get_best_move call on the object main.stockfish refers to; on a
\* terminated process the library raises at engine.configure
Serve(f, e) ==
    /\ wrapper = "constructed"
    /\ stockfish
    /\ call' = [op |-> "get_best_move", fen |-> f, elo |-> e]
    /\ \/ /\ engine = "running"
          /\ \E ch \in EngineChoices :
                resp' = get_best_move(BoardFromFen(f), e, ch)
          /\ options' = configure(options, StrengthOptions(e))
       \/ /\ engine = "terminated"
          /\ resp' = [raised |-> "EngineTerminatedError"]
          /\ options' = options
    /\ UNCHANGED <<games, used, stockfish, engineCalls, applied, timeVars, lifeVars,
                   reqs, applyCalls, running, elo_rating, skill_level>>

\* stockfish.close(), by the lifespan hook at shutdown (lines 81-82) or by
\* any other holder of the object
Close ==
    /\ wrapper = "constructed"
    /\ stockfish
    /\ quits < MaxQuits
    /\ \E o \in QuitOutcomes :
          \E r \in {close(engine, quits, o)} :
             /\ engine' = r.engine
             /\ quits' = r.quits
             /\ resp' = [raised |-> r.raised]
    /\ call' = [op |-> "close"]
    /\ UNCHANGED <<games, used, stockfish, engineCalls, applied, timeVars, wrapper,
                   options, reqs, applyCalls, running, elo_rating, skill_level>>

\* __del__, lines 150-152, when the last reference goes: close() once more;
\* what it raises is reported by the interpreter and goes no further
Del ==
    /\ wrapper = "constructed"
    /\ wrapper' = "deleted"
    /\ stockfish' = FALSE
    /\ \E o \in QuitOutcomes :
          \E r \in {close(engine, quits, o)} :
             /\ engine' = r.engine
             /\ quits' = r.quits
             /\ resp' = [raised |-> r.raised, ignored |-> TRUE]
    /\ call' = [op |-> "__del__"]
    /\ UNCHANGED <<games, used, engineCalls, applied, timeVars,
                   options, reqs, applyCalls, running, elo_rating, skill_level>>

NextLife ==
    \/ \E started \in BOOLEAN : Construct(started)
    \/ \E f \in EngineFens, e \in EngineElos : Serve(f, e)
    \/ Close
    \/ Del

SpecLife == InitLife /\ [][NextLife]_vars

\* ------------------------------------------------------------------ claims

\* the board a history leads to when it is replayed from the starting
\* position, move by move, on one board
RECURSIVE Replay(_)
Replay(history) ==
    IF history = <<>> THEN InitialBoard
    ELSE push(Replay(SubSeq(history, 1, Len(history) - 1)),
              from_uci(history[Len(history)]))

\* a move text that apply_move has to refuse on game g of store gs
Refused(gs, g, move_uci) ==
    \/ g \notin DOMAIN gs
    \/ from_uci(move_uci) = ValueError
    \/ from_uci(move_uci) \notin legal_moves(BoardFromFen(gs[g].board_fen))

Terminal == {"checkmate", "stalemate", "draw"}

\* C1: once a game's status is checkmate, stalemate or draw, every
\* apply_move on it returns False and leaves the store as it was.
C1_TerminalIsAbsorbing ==
    [][(/\ call'.op = "apply_move"
        /\ call'.game_id \in DOMAIN games
        /\ games[call'.game_id].status \in Terminal)
       => (resp'.ret = FALSE /\ games' = games)]_vars

\* C2: apply_move returns a boolean; for an unknown id, a text that does
\* not parse or a move that is not legal in the game's position it returns
\* False; whenever it returns False the whole store is unchanged, and when
\* it returns True position, history, last move and turn of that one game
\* are all updated and no other game is touched.
C2_ApplyMoveFailsClosed ==
    [][call'.op = "apply_move" =>
        LET g == call'.game_id
            m == call'.move_uci
        IN /\ resp'.ret \in BOOLEAN
           /\ Refused(games, g, m) => resp'.ret = FALSE
           /\ resp'.ret = FALSE => games' = games
           /\ resp'.ret = TRUE =>
                /\ DOMAIN games' = DOMAIN games
                /\ \A o \in DOMAIN games \ {g} : games'[o] = games[o]
                /\ games'[g].move_history = Append(games[g].move_history, m)
                /\ games'[g].last_move = m
                /\ games'[g].board_fen # games[g].board_fen
                /\ games'[g].current_turn = games'[g].board_fen.turn
                /\ games'[g].current_turn # games[g].current_turn
                /\ \A b \in {push(BoardFromFen(games[g].board_fen), from_uci(m))} :
                      games'[g].status = _update_game_status(games[g], b).status]_vars

\* C2 witness: a parsable move that is not legal was refused on a game that
\* has moves, with a second game in the store.
C2_Witness ==
    /\ call.op = "apply_move"
    /\ call.game_id \in DOMAIN games
    /\ call.move_uci = "e2e4"
    /\ resp.ret = FALSE
    /\ Len(games[call.game_id].move_history) >= 2
    /\ Cardinality(DOMAIN games) = 2

\* C3: for every game, the history is as long as the number of apply_move
\* calls on it that returned True, the stored position is the one reached
\* by replaying the history from the starting position, and a step only
\* ever adds moves at the end of a history.
C3_HistoryReplays ==
    /\ [](\A g \in DOMAIN games :
            /\ Len(games[g].move_history) = applied[g]
            /\ games[g].board_fen = fen(Replay(games[g].move_history)))
    /\ [][\A g \in DOMAIN games \cap DOMAIN games' :
            /\ Len(games'[g].move_history) >= Len(games[g].move_history)
            /\ SubSeq(games'[g].move_history, 1, Len(games[g].move_history))
                 = games[g].move_history]_vars

\* C3 witness: a game on which four moves were applied, the last of them
\* just now.
C3_Witness ==
    /\ call.op = "apply_move"
    /\ resp.ret = TRUE
    /\ call.game_id \in DOMAIN games
    /\ Len(games[call.game_id].move_history) = 4
    /\ applied[call.game_id] = 4

\* the status and winner the terminal-detection rule gives for a game whose
\* moves led to board b, every predicate taken over the whole game
Outcome(b) ==
    IF is_checkmate(b) THEN <<"checkmate", Other(b.turn)>>
    ELSE IF is_stalemate(b) THEN <<"stalemate", None>>
    ELSE IF is_insufficient_material(b) THEN <<"draw", None>>
    ELSE IF can_claim_fifty_moves(b) THEN <<"draw", None>>
    ELSE IF can_claim_threefold_repetition(b) THEN <<"draw", None>>
    ELSE <<"ongoing", None>>

\* C4: the stored status and winner of a game that has moves are the outcome
\* of the first matching rule (checkmate, stalemate, insufficient material,
\* fifty-move claim, threefold-repetition claim, else ongoing), and a game
\* has a winner exactly when its status is checkmate.
C4_FirstMatchingRule ==
    \A g \in DOMAIN games :
        /\ games[g].move_history # <<>> =>
             <<games[g].status, games[g].winner>> = Outcome(Replay(games[g].move_history))
        /\ games[g].winner # None <=> games[g].status = "checkmate"

\* C5: a game whose position allows a threefold-repetition claim over its
\* history, with no earlier rule matching, has status draw and no winner.
C5_ThreefoldIsDraw ==
    \A g \in DOMAIN games :
        LET b == Replay(games[g].move_history)
        IN (/\ games[g].move_history # <<>>
            /\ ~is_checkmate(b) /\ ~is_stalemate(b)
            /\ ~is_insufficient_material(b) /\ ~can_claim_fifty_moves(b)
            /\ can_claim_threefold_repetition(b))
           => (games[g].status = "draw" /\ games[g].winner = None)

\* what a step that is a player_move call on game g with text m finds: the
\* game exists, is ongoing, it is the player's turn in the stored position,
\* and the move is legal
Playable(gs, g, m) ==
    /\ g \in DOMAIN gs
    /\ gs[g].status = "ongoing"
    /\ gs[g].board_fen.turn = gs[g].player_color
    /\ ~Refused(gs, g, m)

\* the game as the player's move leaves it
AfterHuman(gs, g, m) == apply_move(gs, g, m).games[g]

Rejected(code, detail) == resp'.code = code /\ resp'.detail = detail

Untouched == games' = games /\ engineCalls' = engineCalls

\* C6: with the engine object in place, player_move checks in this order
\* that the game exists, that it is ongoing, that it is the player's turn in
\* the stored position and that the move is legal; the first check that
\* fails decides the rejection, a rejection asks the engine nothing and
\* changes no game, and a request that passes all four gets none of them.
C6_RejectionOrder ==
    [][(call'.op = "player_move" /\ stockfish) =>
        LET g == call'.game_id
            m == call'.move_uci
        IN IF g \notin DOMAIN games
           THEN Rejected(404, "Game not found") /\ Untouched
           ELSE IF games[g].status # "ongoing"
           THEN Rejected(400, "Game is " \o games[g].status) /\ Untouched
           ELSE IF games[g].board_fen.turn # games[g].player_color
           THEN Rejected(400, "Not player's turn") /\ Untouched
           ELSE IF Refused(games, g, m)
           THEN Rejected(400, "Invalid move") /\ Untouched
           ELSE resp'.detail \notin
                  {"Game not found", "Not player's turn", "Invalid move"}
                  \cup {"Game is " \o st : st \in Terminal \cup {"ongoing"}}]_vars

\* C6 witness: a move text that does not parse, sent for a checkmated game
\* in which the side to move is not the player's, was rejected as a move on
\* a concluded game.
C6_Witness ==
    /\ call.op = "player_move"
    /\ call.game_id \in DOMAIN games
    /\ call.move_uci = "zz99"
    /\ games[call.game_id].status = "checkmate"
    /\ games[call.game_id].board_fen.turn # games[call.game_id].player_color
    /\ resp.code = 400
    /\ resp.detail = "Game is checkmate"

\* C7: player_move answers "not found" (404) for an unknown game, "conflict"
\* (409) for a game that is not ongoing, and "bad request" (400) for a move
\* that is illegal or made out of turn.
C7_DistinctResultCodes ==
    [][(call'.op = "player_move" /\ stockfish) =>
        LET g == call'.game_id
            m == call'.move_uci
        IN /\ g \notin DOMAIN games => resp'.code = 404
           /\ (g \in DOMAIN games /\ games[g].status # "ongoing") => resp'.code = 409
           /\ (/\ g \in DOMAIN games
               /\ games[g].status = "ongoing"
               /\ \/ games[g].board_fen.turn # games[g].player_color
                  \/ Refused(games, g, m)) => resp'.code = 400]_vars

\* C8: when the player's move ends the game, player_move answers 200 with
\* the terminal status and winner and no bot move, the engine is not asked,
\* and the game is exactly as the player's move left it: one move longer.
C8_NoReplyOnFinishedGame ==
    [][(/\ call'.op = "player_move"
        /\ stockfish
        /\ Playable(games, call'.game_id, call'.move_uci)
        /\ AfterHuman(games, call'.game_id, call'.move_uci).status # "ongoing") =>
        LET g     == call'.game_id
            m     == call'.move_uci
            ended == AfterHuman(games, g, m)
        IN /\ resp'.code = 200
           /\ resp'.body.success = TRUE
           /\ resp'.body.status = ended.status
           /\ resp'.body.winner = ended.winner
           /\ resp'.body.board_fen = ended.board_fen
           /\ resp'.body.bot_move = None
           /\ engineCalls' = engineCalls
           /\ games'[g] = ended
           /\ games'[g].move_history = Append(games[g].move_history, m)]_vars

\* C8 witness: the player's move gave checkmate and the response names the
\* player as winner, with no bot move.
C8_Witness ==
    /\ call.op = "player_move"
    /\ resp.code = 200
    /\ resp.body.status = "checkmate"
    /\ resp.body.winner = games[call.game_id].player_color
    /\ resp.body.bot_move = None
    /\ games[call.game_id].last_move = call.move_uci

\* C9: a legal move of the player, made in turn on an ongoing game and not
\* ending it, is answered 200; the history grows by the player's move and
\* then the bot's move, which was legal after the player's move, and an
\* ongoing game is the player's to move again.
C9_HumanThenEngine ==
    [][(/\ call'.op = "player_move"
        /\ stockfish
        /\ Playable(games, call'.game_id, call'.move_uci)
        /\ AfterHuman(games, call'.game_id, call'.move_uci).status = "ongoing") =>
        LET g   == call'.game_id
            m   == call'.move_uci
            old == games[g].move_history
            new == games'[g].move_history
        IN /\ resp'.code = 200
           /\ Len(new) = Len(old) + 2
           /\ SubSeq(new, 1, Len(old) + 1) = Append(old, m)
           /\ resp'.body.bot_move = new[Len(new)]
           /\ from_uci(resp'.body.bot_move)
                \in legal_moves(BoardFromFen(AfterHuman(games, g, m).board_fen))
           /\ games'[g].status = "ongoing" =>
                games'[g].current_turn = games'[g].player_color]_vars

\* C10: start_game with a valid colour and a level in the accepted range is
\* answered 200 with the new game; the engine is asked for one move, which
\* is applied, exactly when the player is black; the game is ongoing, it is
\* the player's turn, and the history is empty for white and one move long
\* for black.
C10_StartGameSucceeds ==
    [][(/\ call'.op = "start_game"
        /\ stockfish
        /\ ValidStartRequest(call'.player_color, call'.bot_level)) =>
        /\ resp'.code = 200
        /\ resp'.body.game_id \in DOMAIN games' \ DOMAIN games
        /\ LET game  == games'[resp'.body.game_id]
               black == call'.player_color = "black"
           IN /\ game.player_color = call'.player_color
              /\ game.status = "ongoing"
              /\ game.current_turn = game.player_color
              /\ engineCalls' - engineCalls = (IF black THEN 1 ELSE 0)
              /\ Len(game.move_history) = (IF black THEN 1 ELSE 0)
              /\ game.last_move = None <=> ~black]_vars

\* an engine step of get_best_move call r: engine.play has been called
Played(r) ==
    /\ r \in DOMAIN reqs
    /\ reqs[r].op = "get_best_move"
    /\ reqs[r].pc = "configured"
    /\ reqs'[r].pc = "done"

\* the engine process crashed, or gave no move
Faulted(q) ==
    \/ q.answer.kind \in {"nomove", "crash"}
    \/ legal_moves(BoardFromFen(q.fen)) = {}

\* C11: when the engine crashes or gives no move, get_best_move raises an
\* error and hands back no move at all; engine.play was called once, the
\* call is over (a finished call never steps again), and no game of the
\* store has changed.
C11_EngineFaultIsAnError ==
    [][\A r \in Requests :
         /\ (Played(r) /\ Faulted(reqs'[r])) =>
               /\ reqs'[r].result.raised # None
               /\ "move" \notin DOMAIN reqs'[r].result
               /\ reqs'[r].plays = 1
               /\ games' = games
         /\ (r \in DOMAIN reqs /\ reqs[r].pc = "done") => reqs'[r] = reqs[r]]_vars

\* C11 witness: the engine gave no move for a position that has legal moves
\* and the call ended with the error.
C11_Witness ==
    \E r \in DOMAIN reqs :
        /\ reqs[r].op = "get_best_move"
        /\ reqs[r].pc = "done"
        /\ reqs[r].answer.kind = "nomove"
        /\ reqs[r].fen = fen(InitialBoard)
        /\ reqs[r].result.raised = "Stockfish failed to generate a move"
        /\ games["g1"].move_history = <<>>

\* every call has been made, for the same move on the same position, in
\* which that move is legal
SameLegalMove ==
    /\ DOMAIN applyCalls = Calls
    /\ \A c \in Calls :
          /\ applyCalls[c].move_uci = applyCalls[1].move_uci
          /\ applyCalls[c].seen = applyCalls[1].seen
    /\ from_uci(applyCalls[1].move_uci) \in legal_moves(BoardFromFen(applyCalls[1].seen))

\* C13: when all the apply_move calls in flight on one game submit the same
\* move, legal in the position they all saw, then once they have all
\* returned exactly one has returned True, the history is the one they saw
\* with that move added once, and the position is the replay of the history.
C13_OneOfManySucceeds ==
    (SameLegalMove /\ \A c \in Calls : applyCalls[c].pc = "done") =>
        /\ Cardinality({c \in Calls : applyCalls[c].ret}) = 1
        /\ games["g1"].move_history
             = Append(applyCalls[1].seen_history, applyCalls[1].move_uci)
        /\ games["g1"].board_fen = fen(Replay(games["g1"].move_history))
        /\ applied["g1"] = Len(games["g1"].move_history)

\* C13 witness: every call submitted g8f6 after e2e4 and all have returned,
\* the first of them with False.
C13_Witness ==
    /\ SameLegalMove
    /\ \A c \in Calls : applyCalls[c].pc = "done"
    /\ applyCalls[1].move_uci = "g8f6"
    /\ applyCalls[1].seen_history = <<"e2e4">>
    /\ applyCalls[1].ret = FALSE

\* the options in effect agree with the ones requested
InEffect(opts, requested) ==
    \A n \in DOMAIN requested : opts[n] = requested[n]

\* C14: while a get_best_move call stands between its configure and its
\* play, no other call on the engine takes a step; so every call that has
\* played did so under the strength options set for its own rating, and
\* the move it was given is a legal move of its own position.
C14_EngineCallsAreSerialized ==
    /\ [](\A r \in DOMAIN reqs :
            (reqs[r].op = "get_best_move" /\ reqs[r].pc = "done") =>
               /\ InEffect(reqs[r].played_with, StrengthOptions(reqs[r].elo))
               /\ reqs[r].result.raised = None =>
                    reqs[r].result.move \in legal_moves(BoardFromFen(reqs[r].fen)))
    /\ [][\A r \in DOMAIN reqs :
            reqs[r].pc = "configured" =>
               \A q \in DOMAIN reqs \ {r} : reqs'[q].pc = reqs[q].pc]_vars

\* C14 witness: two get_best_move calls for different positions and with
\* ratings that ask for different options have both been given a move.
C14_Witness ==
    /\ DOMAIN reqs = Requests
    /\ \A r \in Requests :
          /\ reqs[r].op = "get_best_move"
          /\ reqs[r].pc = "done"
          /\ reqs[r].result.raised = None
    /\ reqs["r1"].elo = 5
    /\ reqs["r2"].elo = MAX_ELO
    /\ reqs["r1"].fen # reqs["r2"].fen
    /\ reqs["r1"].played_with # reqs["r2"].played_with

\* a rating brought into the supported range
Clamped(e) == IF e < 1320 THEN 1320 ELSE IF e > 3000 THEN 3000 ELSE e

\* C15: create_game with a colour other than white and black raises
\* ValueError and adds nothing to the store; with white or black it succeeds
\* for every rating, stores the rating clamped into [1320, 3000], and the
\* new game has an id never used before, the starting position, an empty
\* history, no last move, status ongoing, no winner and white to move; it is
\* what get_game answers for its id, and it stays in the store until a
\* delete_game for its id.
C15_CreateGame ==
    /\ [][call'.op = "create_game" =>
            IF call'.player_color \notin {"white", "black"}
            THEN resp'.raised = "ValueError" /\ games' = games
            ELSE /\ resp'.raised = None
                 /\ resp'.ret.game_id \notin used
                 /\ DOMAIN games' = DOMAIN games \cup {resp'.ret.game_id}
                 /\ \A g \in DOMAIN games : games'[g] = games[g]
                 /\ get_game(games', resp'.ret.game_id) = resp'.ret
                 /\ resp'.ret =
                      [game_id      |-> resp'.ret.game_id,
                       board_fen    |-> fen(InitialBoard),
                       player_color |-> call'.player_color,
                       bot_elo      |-> Clamped(call'.bot_elo),
                       move_history |-> <<>>,
                       status       |-> "ongoing",
                       winner       |-> None,
                       current_turn |-> "white",
                       last_move    |-> None]]_vars
    /\ [][\A g \in DOMAIN games :
            g \notin DOMAIN games' => (call'.op = "delete_game" /\ call'.game_id = g)]_vars
    /\ [](\A g \in DOMAIN games : get_game(games, g).game_id = g)

\* C15 witness: a game was created as black with rating 3500 next to another
\* game, and is stored with rating 3000.
C15_Witness ==
    /\ call.op = "create_game"
    /\ call.player_color = "black"
    /\ call.bot_elo = 3500
    /\ resp.raised = None
    /\ games[resp.ret.game_id].bot_elo = 3000
    /\ Cardinality(DOMAIN games) = 2

\* C16: delete_game returns True exactly when the game was in the store and
\* then removes it, and returns False and changes nothing otherwise, so
\* deleting the same id again returns False; afterwards get_game answers
\* None, get_legal_moves nothing and apply_move False for that id, and every
\* other game is as it was.
C16_DeleteGame ==
    [][call'.op = "delete_game" =>
        LET g == call'.game_id
        IN /\ resp'.ret = (g \in DOMAIN games)
           /\ DOMAIN games' = DOMAIN games \ {g}
           /\ \A o \in DOMAIN games' : games'[o] = games[o]
           /\ get_game(games', g) = NoGame
           /\ get_legal_moves(games', g) = {}
           /\ \A m \in TextsFor(games, g) : apply_move(games', g, m).ret = FALSE
           /\ delete_game(games', g) = [games |-> games', ret |-> FALSE]
           /\ (call.op = "delete_game" /\ call.game_id = g) =>
                 (resp'.ret = FALSE /\ games' = games)]_vars

\* C16 witness: a game with moves was deleted and another game is still in
\* the store.
C16_Witness ==
    /\ call.op = "delete_game"
    /\ resp.ret = TRUE
    /\ call.game_id \notin DOMAIN games
    /\ Cardinality(DOMAIN games) = 1
    /\ \E g \in DOMAIN games : Len(games[g].move_history) >= 1

Abs(x) == IF x < 0 THEN 0 - x ELSE x

\* a rating inside the supported range has been converted
Converted == skill_level # <<>> /\ elo_rating >= 1320 /\ elo_rating <= 3000

\* C17 as stated: for a rating in [1320, 3000] the level is
\* (rating - 1320) / (3000 - 1320) * 20 rounded to a nearest integer (either
\* one at a half), within [0, 20].
C17_LevelIsRounded ==
    Converted =>
        /\ 2 * Abs(skill_level[1] * (3000 - 1320) - (elo_rating - 1320) * 20) <= 3000 - 1320
        /\ skill_level[1] >= 0 /\ skill_level[1] <= 20

\* C17 as amended: for a rating in [1320, 3000] the level is
\* (rating - 1320) / (3000 - 1320) * 20 with the fraction cut off: the
\* largest integer not above it, within [0, 20].
C17_LevelIsTruncated ==
    Converted =>
        /\ skill_level[1] * (3000 - 1320) <= (elo_rating - 1320) * 20
        /\ (skill_level[1] + 1) * (3000 - 1320) > (elo_rating - 1320) * 20
        /\ skill_level[1] >= 0 /\ skill_level[1] <= 20

\* C17 witness: rating 2999, for which rounding would give level 20, was
\* converted to level 19.
C17_Witness ==
    /\ elo_rating = 2999
    /\ skill_level = <<19>>

\* C18: of two ratings converted one after the other, whether inside the
\* range or not, the larger never gets the smaller level, and every level
\* lies in [0, 20].
C18_LevelIsMonotonic ==
    /\ [][(skill_level # <<>> /\ skill_level' # <<>>) =>
            /\ elo_rating < elo_rating' => skill_level[1] <= skill_level'[1]
            /\ elo_rating > elo_rating' => skill_level[1] >= skill_level'[1]]_vars
    /\ [](skill_level # <<>> => (skill_level[1] >= 0 /\ skill_level[1] <= 20))

\* C18 witness: a rating above the range was converted, to level 20.
C18_Witness ==
    /\ elo_rating > 3000
    /\ skill_level = <<20>>

\* a get_best_move call that has asked the engine for its move
Requested(r) == reqs[r].op = "get_best_move" /\ reqs[r].pc = "done"

\* C19: the options under which the engine was asked for a move are the
\* full-strength ones (limit off, level 20) when the requested rating is
\* 3000 or more, and otherwise the limited ones: limit on, the rating
\* brought into [1320, 3000], and the level derived from that rating.
\* Level 20 with the limit on never goes with a rating of 3000 or more.
C19_StrengthConfiguration ==
    \A r \in DOMAIN reqs :
        Requested(r) =>
            \A o \in {reqs[r].played_with} :
                /\ reqs[r].elo >= 3000 =>
                      /\ o.UCI_LimitStrength = FALSE
                      /\ o.Skill_Level = 20
                /\ reqs[r].elo < 3000 =>
                      /\ o.UCI_LimitStrength = TRUE
                      /\ o.UCI_Elo = Clamped(reqs[r].elo)
                      /\ o.Skill_Level * (3000 - 1320) <= (o.UCI_Elo - 1320) * 20
                      /\ (o.Skill_Level + 1) * (3000 - 1320) > (o.UCI_Elo - 1320) * 20

\* C19 witness: one call at rating 3000 and one at rating 2160 have both
\* asked the engine for a move, the second under level 10.
C19_Witness ==
    /\ DOMAIN reqs = Requests
    /\ Requested("r1") /\ Requested("r2")
    /\ reqs["r1"].elo = 3000
    /\ reqs["r2"].elo = 2160
    /\ reqs["r2"].played_with.Skill_Level = 10

\* the score the engine reported, seen from the first mover's side
FirstMoverScore(position, answer) ==
    IF "info" \in DOMAIN answer /\ "score" \in DOMAIN answer.info
                                /\ "cp" \in DOMAIN answer.info.score
    THEN IF BoardFromFen(position).turn = "white"
         THEN [cp |-> answer.info.score.cp]
         ELSE [cp |-> 0 - answer.info.score.cp]
    ELSE NoScore

\* C20 as stated: every evaluation handed back, by get_evaluation and as
\* the second part of get_best_move's result, is the engine's score for
\* the side to move when white is to move, its negation when black is to
\* move, and none when the engine gave no score.
C20_EvaluationIsFirstMoverPositive ==
    \A r \in DOMAIN reqs :
        (reqs[r].pc = "done" /\ reqs[r].result.raised = None) =>
            IF reqs[r].op = "get_best_move"
            THEN reqs[r].result.score = FirstMoverScore(reqs[r].fen, reqs[r].answer)
            ELSE reqs[r].result.ret = FirstMoverScore(reqs[r].fen, reqs[r].answer)

\* the side to move after a history: white after an even number of moves
SideToMove(history) == IF Len(history) % 2 = 0 THEN "white" ELSE "black"

\* C22: in every state and for every game, current_turn is the side to move
\* of the stored position, which is white after an even number of moves and
\* black after an odd number, and last_move is None exactly when the
\* history is empty and otherwise the last move of the history.
C22_TurnAndLastMove ==
    \A g \in DOMAIN games :
        /\ games[g].current_turn = BoardFromFen(games[g].board_fen).turn
        /\ games[g].current_turn = SideToMove(games[g].move_history)
        /\ games[g].last_move = None <=> games[g].move_history = <<>>
        /\ games[g].move_history # <<>> =>
              games[g].last_move = games[g].move_history[Len(games[g].move_history)]

\* C22 witness: a game with three moves applied: black is to move and the
\* last move is the third; next to it a game with no move yet.
C22_Witness ==
    \E g, h \in DOMAIN games :
        /\ Len(games[g].move_history) = 3
        /\ games[g].current_turn = "black"
        /\ games[g].last_move = games[g].move_history[3]
        /\ games[h].move_history = <<>>
        /\ games[h].last_move = None

\* C24 as stated: after any sequence of start_game and player_move
\* requests, answered or refused or failed, every ongoing game is the
\* player's to move.
C24_OngoingGameAwaitsPlayer ==
    \A g \in DOMAIN games :
        games[g].status = "ongoing" => games[g].current_turn = games[g].player_color

\* C25 as stated: a start_game request that is answered with an error
\* leaves the store as it was, and a game enters the store only in a
\* start_game request answered 200 with that game's id.
C25_NoOrphanGame ==
    [][/\ (call'.op = "start_game" /\ resp'.code # 200) => games' = games
       /\ DOMAIN games' \ DOMAIN games # {} =>
             /\ call'.op = "start_game"
             /\ resp'.code = 200
             /\ DOMAIN games' \ DOMAIN games = {resp'.body.game_id}]_vars

\* C23: for a positive move time, the limit given to the engine is the move
\* time at rating 1320 and below, one and a half times the move time at
\* rating 3000 and above, grows by the same amount with every rating point
\* in between, lies between the two, and of two calls with the same move
\* time the one with the larger rating never gets the smaller limit.
\* (Limits are compared in multiples of 1/3360 of the move time's unit.)
C23_TimeBudget ==
    /\ [](adjusted_time # <<>> =>
            /\ move_time > 0
            /\ elo_rating <= 1320 => adjusted_time[1] = move_time * 3360
            /\ elo_rating >= 3000 => 2 * adjusted_time[1] = 3 * move_time * 3360
            /\ (elo_rating >= 1320 /\ elo_rating <= 3000) =>
                  adjusted_time[1] - move_time * 3360 = (elo_rating - 1320) * move_time
            /\ adjusted_time[1] >= move_time * 3360
            /\ 2 * adjusted_time[1] <= 3 * move_time * 3360)
    /\ [][(adjusted_time # <<>> /\ adjusted_time' # <<>> /\ move_time = move_time') =>
            /\ elo_rating <= elo_rating' => adjusted_time[1] <= adjusted_time'[1]
            /\ elo_rating >= elo_rating' => adjusted_time[1] >= adjusted_time'[1]]_vars

\* C23 witness: a call at the middle rating, 2160, with the default move
\* time of 200 ms got a limit of 250 ms.
C23_Witness ==
    /\ elo_rating = 2160
    /\ move_time = 200
    /\ adjusted_time = <<250 * 3360>>

\* C21 as stated: close(), called by a holder of the object or by its
\* destructor, with no engine process, with a running one or with one
\* already terminated, raises nothing; and engine.quit() is called at most
\* once in the life of the object.
C21_ShutdownIsSafe ==
    /\ call.op \in {"close", "__del__"} => resp.raised = None
    /\ quits <= 1

====
